---- MODULE Spec2Model ----
(***************************************************************************)
(* Model of sol_monitor_userfilter_forward.py: the contract-address        *)
(* extraction engine (extract_contracts_from_text, find_split_contracts)   *)
(* and the Telegram host around it (seeding of the seen set, the           *)
(* NewMessage handler, logging and forwarding).                            *)
(*                                                                         *)
(* A Python string is a sequence of one-character strings.  Positions in   *)
(* the regex operators are 1-based indices into that sequence; a fragment  *)
(* position `pos` is the 0-based m.start() of the source.                  *)
(***************************************************************************)
EXTENDS Integers, Sequences, FiniteSets, TLC

VARIABLES
    text,        \* the argument of extract_contracts_from_text / find_split_contracts
    pc,          \* position in the function under execution
    results,     \* the local list `results`
    out,         \* the local list `unique_results` (the value returned)
    fragments,   \* find_split_contracts: `unique_fragments`
    ending,      \* find_split_contracts: `ending_fragments`
    seen,        \* main: the set `seen`
    logfile,     \* the lines this process appended to OUTPUT_FILE, in f.write order
    sent,        \* the send_message calls that returned, in order: <<target, address>>
    attempts,    \* the send_message calls that were started, in order
    failures,    \* the "Failed to forward" lines printed, in order (the address)
    stored,      \* the lines OUTPUT_FILE held when the process started
    history,     \* the messages of the 30-day lookback, as iter_messages yields them
    cursor,      \* how many messages of `history` the seeding loop has consumed
    arrived,     \* how many NewMessage events have been dispatched
    tasks        \* the handler invocations: one record per dispatched event

vars == <<text, pc, results, out, fragments, ending, seen, logfile, sent,
          attempts, failures, stored, history, cursor, arrived, tasks>>

extractVars == <<text, pc, results, out, fragments, ending>>
hostVars == <<seen, logfile, sent, attempts, failures, stored, history, cursor,
              arrived, tasks>>

(***************************************************************************)
(* Characters and character classes                                        *)
(***************************************************************************)

Digits19 == {"1", "2", "3", "4", "5", "6", "7", "8", "9"}

Uppers == <<"A", "B", "C", "D", "E", "F", "G", "H", "I", "J", "K", "L", "M",
            "N", "O", "P", "Q", "R", "S", "T", "U", "V", "W", "X", "Y", "Z">>

Lowers == <<"a", "b", "c", "d", "e", "f", "g", "h", "i", "j", "k", "l", "m",
            "n", "o", "p", "q", "r", "s", "t", "u", "v", "w", "x", "y", "z">>

Range(s) == {s[i] : i \in DOMAIN s}

\* The character class [1-9A-HJ-NP-Za-km-z].
Base58 == Digits19 \cup (Range(Uppers) \ {"I", "O"}) \cup (Range(Lowers) \ {"l"})

\* The regex class \w (ASCII part): letters, digits, underscore.
WordChars == Range(Uppers) \cup Range(Lowers) \cup Digits19 \cup {"0", "_"}

\* The regex class \s (ASCII part).
WhiteSpace == {" ", "\t", "\n", "\r", "\f"}

\* The character class [-_.\s].
Specials == {"-", "_", "."} \cup WhiteSpace

\* Program constants of the patterns.
MinAddrLen == 32
MaxAddrLen == 44
MinFragLen == 8
MaxSpecials == 2
MarkerWindow == 20

Max(S) == CHOOSE x \in S : \A y \in S : y <= x

Min2(a, b) == IF a <= b THEN a ELSE b

Rep(c, n) == [i \in 1..n |-> c]

\* str.lower() on one character and on a string.
LowerChar(c) ==
    IF c \in Range(Uppers)
    THEN Lowers[CHOOSE i \in DOMAIN Uppers : Uppers[i] = c]
    ELSE c

Lower(s) == [i \in 1..Len(s) |-> LowerChar(s[i])]

\* Python slice s[a:b] with 0-based a, b >= 0 (clipped to the string).
Slice(s, a, b) == SubSeq(s, a + 1, Min2(b, Len(s)))

\* str.endswith and the `in` substring test.
EndsWith(s, suf) ==
    /\ Len(suf) <= Len(s)
    /\ SubSeq(s, Len(s) - Len(suf) + 1, Len(s)) = suf

Contains(s, sub) ==
    \E i \in 1..(Len(s) - Len(sub) + 1) : SubSeq(s, i, i + Len(sub) - 1) = sub

\* Number of consecutive characters of class S starting at index p.
RECURSIVE RunLen(_, _, _)
RunLen(s, p, S) ==
    IF p <= Len(s) /\ s[p] \in S THEN 1 + RunLen(s, p + 1, S) ELSE 0

\* The regex assertion \b at index p (between s[p-1] and s[p]).
WordBoundary(s, p) ==
    (p > 1 /\ s[p - 1] \in WordChars) # (p <= Len(s) /\ s[p] \in WordChars)

\* FullShape with the quantifier written {1,44}: no lower bound on the length.
FullShape_NoMinimum(s) ==
    /\ Len(s) \in 1..MaxAddrLen
    /\ \A i \in 1..Len(s) : s[i] \in Base58

\* re.match(r'^[1-9A-HJ-NP-Za-km-z]{32,44}$', s): `$` matches at the end of
\* the string and also just before a newline that ends the string.
FullShape(s) ==
    \E n \in MinAddrLen..MaxAddrLen :
        /\ n <= Len(s)
        /\ \A i \in 1..n : s[i] \in Base58
        /\ \/ n = Len(s)
           \/ n = Len(s) - 1 /\ s[Len(s)] = "\n"

(***************************************************************************)
(* The three patterns, matched as re.findall / re.finditer match them:     *)
(* leftmost first, greedy with backtracking, non-overlapping.              *)
(***************************************************************************)

\* SOL_PATTERN at index p: length of the match, 0 when there is none.
\* \b, then the longest n in 32..44 of Base58 characters that is followed
\* by \b.
SolMatchLen(s, p) ==
    LET r == RunLen(s, p, Base58)
        cands == {n \in MinAddrLen..MaxAddrLen : n <= r /\ WordBoundary(s, p + n)}
    IN  IF WordBoundary(s, p) /\ cands # {} THEN Max(cands) ELSE 0

\* re.findall(SOL_PATTERN, text) from index p on.
RECURSIVE StandardFrom(_, _)
StandardFrom(s, p) ==
    IF p > Len(s) THEN <<>>
    ELSE LET n == SolMatchLen(s, p)
         IN  IF n > 0
             THEN <<SubSeq(s, p, p + n - 1)>> \o StandardFrom(s, p + n)
             ELSE StandardFrom(s, p + 1)

StandardMatches(s) == StandardFrom(s, 1)

\* SepThenRun with the separator class not repeated: exactly one special.
SepThenRun_OneSpecial(s, p) ==
    IF RunLen(s, p, Specials) >= 1 /\ RunLen(s, p + 1, Base58) >= MinFragLen
    THEN 1 + RunLen(s, p + 1, Base58)
    ELSE 0

\* [-_.\s]{1,2}[1-9A-HJ-NP-Za-km-z]{8,} at index p: length matched, 0 when
\* there is none (two specials are tried before one).
SepThenRun(s, p) ==
    LET cands == {k \in 1..MaxSpecials :
                     /\ k <= RunLen(s, p, Specials)
                     /\ RunLen(s, p + k, Base58) >= MinFragLen}
    IN  IF cands = {} THEN 0
        ELSE Max(cands) + RunLen(s, p + Max(cands), Base58)

\* (?:[-_.\s]{1,2}[1-9A-HJ-NP-Za-km-z]{8,})* at index p: length matched.
RECURSIVE ObfTail(_, _)
ObfTail(s, p) ==
    LET n == SepThenRun(s, p)
    IN  IF n = 0 THEN 0 ELSE n + ObfTail(s, p + n)

\* SOL_PATTERN_WITH_SPECIALS at index p: length of the match, 0 when none.
ObfMatchLen(s, p) ==
    LET r == RunLen(s, p, Base58)
        cands == {n \in MinFragLen..r : SepThenRun(s, p + n) > 0}
    IN  IF cands = {} THEN 0
        ELSE Max(cands) + ObfTail(s, p + Max(cands))

\* re.findall(SOL_PATTERN_WITH_SPECIALS, text) from index p on.
RECURSIVE ObfuscatedFrom(_, _)
ObfuscatedFrom(s, p) ==
    IF p > Len(s) THEN <<>>
    ELSE LET n == ObfMatchLen(s, p)
         IN  IF n > 0
             THEN <<SubSeq(s, p, p + n - 1)>> \o ObfuscatedFrom(s, p + n)
             ELSE ObfuscatedFrom(s, p + 1)

ObfuscatedMatches(s) == ObfuscatedFrom(s, 1)

\* CA_FRAGMENT_PATTERN with re.finditer: (m.group(), m.start()) from index p on.
RECURSIVE FragmentsFrom(_, _)
FragmentsFrom(s, p) ==
    IF p > Len(s) THEN <<>>
    ELSE LET r == RunLen(s, p, Base58)
         IN  IF r >= MinFragLen
             THEN <<[frag |-> SubSeq(s, p, p + r - 1), pos |-> p - 1]>>
                  \o FragmentsFrom(s, p + r)
             ELSE FragmentsFrom(s, p + 1)

FragmentMatches(s) == FragmentsFrom(s, 1)

\* re.sub(r'[-_.\s]', '', match)
Cleaned(match) == SelectSeq(match, LAMBDA c : c \notin Specials)

(***************************************************************************)
(* find_split_contracts                                                    *)
(***************************************************************************)

\* "Remove duplicates while preserving order and position".
RECURSIVE UniqueFragments(_)
UniqueFragments(ms) ==
    IF ms = <<>> THEN <<>>
    ELSE LET init == UniqueFragments(SubSeq(ms, 1, Len(ms) - 1))
             last == ms[Len(ms)]
         IN  IF \E k \in DOMAIN init : init[k].frag = last.frag
             THEN init
             ELSE Append(init, last)

Pump == <<"p", "u", "m", "p">>
PumpFun == <<"p", "u", "m", "p", "f", "u", "n">>
PumpDotFun == <<"p", "u", "m", "p", ".", "f", "u", "n">>

\* Whether one (frag, pos) is added to ending_fragments.
IsEnding(s, f) ==
    LET after == Lower(Slice(s, f.pos + Len(f.frag), f.pos + Len(f.frag) + MarkerWindow))
    IN  \/ EndsWith(Lower(f.frag), Pump)
        \/ Contains(after, PumpFun)
        \/ Contains(after, PumpDotFun)
        \/ Contains(after, Pump)

\* The set ending_fragments (fragment texts).
EndingFragments(s, uf) == {uf[k].frag : k \in {k \in DOMAIN uf : IsEnding(s, uf[k])}}

InfoSep == <<" ", "+", " ">>

\* PairCandidate without the ending-marker branches: text order only.
PairCandidate_TextOrder(uf, e, i, j) ==
    IF uf[i].pos < uf[j].pos
    THEN [skip |-> FALSE, combined |-> uf[i].frag \o uf[j].frag,
          info |-> uf[i].frag \o InfoSep \o uf[j].frag]
    ELSE [skip |-> TRUE, combined |-> <<>>, info |-> <<>>]

\* PairCandidate without the `continue` for the reverse order: with no single
\* ending fragment, frag_i + frag_j whatever the positions.
PairCandidate_BothOrders(uf, e, i, j) ==
    IF uf[i].frag \in e /\ uf[j].frag \notin e
    THEN [skip |-> FALSE, combined |-> uf[j].frag \o uf[i].frag,
          info |-> uf[j].frag \o InfoSep \o uf[i].frag]
    ELSE [skip |-> FALSE, combined |-> uf[i].frag \o uf[j].frag,
          info |-> uf[i].frag \o InfoSep \o uf[j].frag]

\* Body of the 2-fragment loop for indices i # j (1-based): the candidate, or
\* skip = TRUE for the `continue` of the reverse order.
PairCandidate(uf, e, i, j) ==
    LET fi == uf[i].frag
        fj == uf[j].frag
    IN  IF fi \in e /\ fj \notin e
        THEN [skip |-> FALSE, combined |-> fj \o fi, info |-> fj \o InfoSep \o fi]
        ELSE IF fj \in e /\ fi \notin e
        THEN [skip |-> FALSE, combined |-> fi \o fj, info |-> fi \o InfoSep \o fj]
        ELSE IF uf[i].pos < uf[j].pos
        THEN [skip |-> FALSE, combined |-> fi \o fj, info |-> fi \o InfoSep \o fj]
        ELSE [skip |-> TRUE, combined |-> <<>>, info |-> <<>>]

\* sorted(list, key=lambda x: x[1]) on a list of (frag, pos): stable, ascending pos.
RECURSIVE SortByPos(_)
SortByPos(l) ==
    IF l = <<>> THEN <<>>
    ELSE LET m == CHOOSE k \in DOMAIN l :
                      /\ \A q \in DOMAIN l : l[k].pos <= l[q].pos
                      /\ \A q \in 1..(k - 1) : l[q].pos > l[k].pos
         IN  <<l[m]>> \o SortByPos(SubSeq(l, 1, m - 1) \o SubSeq(l, m + 1, Len(l)))

\* Body of the 3-fragment loop for pairwise different i, j, k: `ordered`.
TripleOrdered(uf, e, i, j, k) ==
    LET frags == <<uf[i], uf[j], uf[k]>>
        nonEnding == SortByPos(SelectSeq(frags, LAMBDA f : f.frag \notin e))
        endingPart == SelectSeq(frags, LAMBDA f : f.frag \in e)
    IN  IF endingPart # <<>> THEN nonEnding \o endingPart ELSE SortByPos(frags)

TripleCandidate(uf, e, i, j, k) ==
    LET o == TripleOrdered(uf, e, i, j, k)
    IN  [skip |-> FALSE,
         combined |-> o[1].frag \o o[2].frag \o o[3].frag,
         info |-> o[1].frag \o InfoSep \o o[2].frag \o InfoSep \o o[3].frag]

\* The shape test and the "already have this combination" test, then append.
AddCandidate(res, c) ==
    IF ~c.skip /\ FullShape(c.combined)
          /\ ~\E r \in DOMAIN res : res[r].combined = c.combined
    THEN Append(res, [combined |-> c.combined, info |-> c.info])
    ELSE res

\* The 2-fragment loops from iteration `it` on (it = (i-1)*n + (j-1), i outer).
RECURSIVE TwoLoop(_, _, _, _)
TwoLoop(res, uf, e, it) ==
    LET n == Len(uf)
        i == (it \div n) + 1
        j == (it % n) + 1
    IN  IF it >= n * n THEN res
        ELSE IF i = j THEN TwoLoop(res, uf, e, it + 1)
        ELSE TwoLoop(AddCandidate(res, PairCandidate(uf, e, i, j)), uf, e, it + 1)

\* The 3-fragment loops from iteration `it` on (i outer, k inner).
RECURSIVE ThreeLoop(_, _, _, _)
ThreeLoop(res, uf, e, it) ==
    LET n == Len(uf)
        i == (it \div (n * n)) + 1
        j == ((it \div n) % n) + 1
        k == (it % n) + 1
    IN  IF it >= n * n * n THEN res
        ELSE IF i = j \/ i = k \/ j = k THEN ThreeLoop(res, uf, e, it + 1)
        ELSE ThreeLoop(AddCandidate(res, TripleCandidate(uf, e, i, j, k)), uf, e, it + 1)

\* find_split_contracts(text): the list of (combined, fragments_info).
FindSplitContracts(s) ==
    LET uf == UniqueFragments(FragmentMatches(s))
        e == EndingFragments(s, uf)
    IN  IF Len(uf) < 2 THEN <<>>
        ELSE ThreeLoop(TwoLoop(<<>>, uf, e, 0), uf, e, 0)

(***************************************************************************)
(* extract_contracts_from_text                                             *)
(***************************************************************************)

\* results after the loop over standard_matches.
StandardResults(s) ==
    LET ms == StandardMatches(s)
    IN  [k \in 1..Len(ms) |-> [addr |-> ms[k], orig |-> ms[k], kind |-> "standard"]]

\* The loop over obfuscated_matches, from match k on.
RECURSIVE AddObfuscated(_, _, _)
AddObfuscated(res, ms, k) ==
    IF k > Len(ms) THEN res
    ELSE LET c == Cleaned(ms[k])
         IN  IF FullShape(c) /\ ~\E r \in DOMAIN res : res[r].addr = c
             THEN AddObfuscated(
                      Append(res, [addr |-> c, orig |-> ms[k], kind |-> "obfuscated"]),
                      ms, k + 1)
             ELSE AddObfuscated(res, ms, k + 1)

\* NeedsSplit without the test: the reconstructor always runs.
NeedsSplit_Always(res) == TRUE

\* The `if len(results) == 0` test guarding the split reconstructor.
NeedsSplit(res) == Len(res) = 0

\* The loop over split_matches, from match k on.
RECURSIVE AddSplit(_, _, _)
AddSplit(res, sm, k) ==
    IF k > Len(sm) THEN res
    ELSE IF ~\E r \in DOMAIN res : res[r].addr = sm[k].combined
         THEN AddSplit(
                  Append(res, [addr |-> sm[k].combined, orig |-> sm[k].info,
                               kind |-> "split"]),
                  sm, k + 1)
         ELSE AddSplit(res, sm, k + 1)

\* Dedupe without the `seen` test: every result is kept.
Dedupe_KeepAll(res) == res

\* "Remove duplicates while preserving order".
RECURSIVE Dedupe(_)
Dedupe(res) ==
    IF res = <<>> THEN <<>>
    ELSE LET init == Dedupe(SubSeq(res, 1, Len(res) - 1))
             last == res[Len(res)]
         IN  IF \E k \in DOMAIN init : init[k].addr = last.addr
             THEN init
             ELSE Append(init, last)

\* extract_contracts_from_text(text) as a function of the text.
ExtractContracts(s) ==
    LET r1 == StandardResults(s)
        r2 == AddObfuscated(r1, ObfuscatedMatches(s), 1)
        r3 == IF NeedsSplit(r2) THEN AddSplit(r2, FindSplitContracts(s), 1) ELSE r2
    IN  Dedupe(r3)

(***************************************************************************)
(* Input texts.  A text is glue, run, glue, run (, glue, run): a run is a  *)
(* word of Base58 characters (or nothing), a glue is up to MaxGlueLen      *)
(* copies of one character that is not Base58, or a pump marker.           *)
(***************************************************************************)

MaxGlueLen == 2

PumpUpper == <<"P", "U", "M", "P">>

\* " pump/": a marker between two words.
MarkerGlue == <<" ">> \o Pump \o <<"/">>

\* Separators of the obfuscated pattern, other word characters that are not
\* Base58, and a character that is neither.
GlueChars == {"-", "_", ".", " ", "0", "/"}

Glues == {Rep(c, k) : c \in GlueChars, k \in 0..MaxGlueLen} \cup {MarkerGlue}

Runs ==
    {<<>>, Rep("a", 8), Rep("a", 16), Rep("b", 16), Rep("a", 12) \o Pump,
     Rep("b", 12) \o PumpUpper, Rep("a", 32), Rep("a", 44)}

ExtractTexts == {g1 \o r1 \o g2 \o r2 : g1 \in Glues, r1 \in Runs, g2 \in Glues, r2 \in Runs}

SplitGlues == {Rep("/", k) : k \in 0..MaxGlueLen} \cup {MarkerGlue}

SplitRuns ==
    {<<>>, Rep("a", 8), Rep("b", 4) \o Pump, Rep("c", 16), Rep("d", 12) \o Pump,
     Rep("e", 16) \o Pump}

SplitTexts ==
    {g1 \o r1 \o g2 \o r2 \o g3 \o r3 :
        g1 \in SplitGlues, r1 \in SplitRuns, g2 \in SplitGlues, r2 \in SplitRuns,
        g3 \in SplitGlues, r3 \in SplitRuns}

HostIdle ==
    /\ seen = {}
    /\ logfile = <<>>
    /\ sent = <<>>
    /\ attempts = <<>>
    /\ failures = <<>>
    /\ stored = <<>>
    /\ history = <<>>
    /\ cursor = 0
    /\ arrived = 0
    /\ tasks = <<>>

(***************************************************************************)
(* extract_contracts_from_text, one action per stage                       *)
(***************************************************************************)

InitExtract ==
    /\ text \in ExtractTexts
    /\ pc = "standard"
    /\ results = <<>>
    /\ out = <<>>
    /\ fragments = <<>>
    /\ ending = {}
    /\ HostIdle

\* Lines 141-144.
Standard ==
    /\ pc = "standard"
    /\ results' = StandardResults(text)
    /\ pc' = "obfuscated"
    /\ UNCHANGED <<text, out, fragments, ending, hostVars>>

\* Lines 146-156.
Obfuscated ==
    /\ pc = "obfuscated"
    /\ results' = AddObfuscated(results, ObfuscatedMatches(text), 1)
    /\ pc' = "split"
    /\ UNCHANGED <<text, out, fragments, ending, hostVars>>

\* Lines 158-163.
SplitFallback ==
    /\ pc = "split"
    /\ results' = IF NeedsSplit(results)
                  THEN AddSplit(results, FindSplitContracts(text), 1)
                  ELSE results
    /\ pc' = "dedupe"
    /\ UNCHANGED <<text, out, fragments, ending, hostVars>>

\* Lines 165-173.
RemoveDuplicates ==
    /\ pc = "dedupe"
    /\ out' = Dedupe(results)
    /\ pc' = "done"
    /\ UNCHANGED <<text, results, fragments, ending, hostVars>>

NextExtract == Standard \/ Obfuscated \/ SplitFallback \/ RemoveDuplicates

SpecExtract == InitExtract /\ [][NextExtract]_vars

(***************************************************************************)
(* find_split_contracts, one action per stage                              *)
(***************************************************************************)

InitSplit ==
    /\ text \in SplitTexts
    /\ pc = "scan"
    /\ results = <<>>
    /\ out = <<>>
    /\ fragments = <<>>
    /\ ending = {}
    /\ HostIdle

\* Lines 44-56.
ScanFragments ==
    /\ pc = "scan"
    /\ fragments' = UniqueFragments(FragmentMatches(text))
    /\ pc' = IF Len(fragments') < 2 THEN "return" ELSE "classify"
    /\ UNCHANGED <<text, results, out, ending, hostVars>>

\* Lines 58-67.
ClassifyEndings ==
    /\ pc = "classify"
    /\ ending' = EndingFragments(text, fragments)
    /\ pc' = "two"
    /\ UNCHANGED <<text, results, out, fragments, hostVars>>

\* Lines 69-96.
TwoFragments ==
    /\ pc = "two"
    /\ results' = TwoLoop(results, fragments, ending, 0)
    /\ pc' = "three"
    /\ UNCHANGED <<text, out, fragments, ending, hostVars>>

\* Lines 98-131.
ThreeFragments ==
    /\ pc = "three"
    /\ results' = ThreeLoop(results, fragments, ending, 0)
    /\ pc' = "return"
    /\ UNCHANGED <<text, out, fragments, ending, hostVars>>

NextSplit == ScanFragments \/ ClassifyEndings \/ TwoFragments \/ ThreeFragments

SpecSplit == InitSplit /\ [][NextSplit]_vars

(***************************************************************************)
(* Vocabulary of the claims about extract_contracts_from_text              *)
(***************************************************************************)

\* The maximal Base58 runs of a text, of any length, in text order.
RECURSIVE MaximalRunsFrom(_, _)
MaximalRunsFrom(s, p) ==
    IF p > Len(s) THEN <<>>
    ELSE LET r == RunLen(s, p, Base58)
         IN  IF r > 0
             THEN <<SubSeq(s, p, p + r - 1)>> \o MaximalRunsFrom(s, p + r)
             ELSE MaximalRunsFrom(s, p + 1)

MaximalRuns(s) == MaximalRunsFrom(s, 1)

IsAddrLen(n) == n \in MinAddrLen..MaxAddrLen

\* The intact runs of 32 to 44 characters of a text.
IntactRuns(s) == SelectSeq(MaximalRuns(s), LAMBDA r : IsAddrLen(Len(r)))

\* One intact run of 32 to 44 characters; every other Base58 word is shorter.
SingleIntactRun(s) ==
    /\ Len(IntactRuns(s)) = 1
    /\ \A k \in DOMAIN MaximalRuns(s) : Len(MaximalRuns(s)[k]) <= MaxAddrLen

\* What standard and obfuscated matching produce together.
EasyResults(s) == AddObfuscated(StandardResults(s), ObfuscatedMatches(s), 1)

Kinds(rs) == {rs[k].kind : k \in DOMAIN rs}

Addrs(rs) == {rs[k].addr : k \in DOMAIN rs}

\* C1: a text with a single intact run of 32 to 44 Base58 characters yields
\* exactly one result, of kind standard, whose address is that run, whatever
\* characters that are not Base58 surround the run and whatever shorter Base58
\* words appear elsewhere.
C1_SingleRunIsTheOnlyResult ==
    (pc = "done" /\ SingleIntactRun(text)) =>
        out = <<[addr |-> IntactRuns(text)[1], orig |-> IntactRuns(text)[1],
                 kind |-> "standard"]>>

\* The text holds exactly two fragments of 8 or more characters, standard and
\* obfuscated matching find nothing, and the two together are 32 to 44 long.
TwoFragmentCase(s) ==
    /\ Len(FragmentMatches(s)) = 2
    /\ EasyResults(s) = <<>>
    /\ IsAddrLen(Len(FragmentMatches(s)[1].frag) + Len(FragmentMatches(s)[2].frag))

\* The concatenation the claim asks for: text order, unless exactly the first
\* fragment is ending-marked (ends in pump, or a pump marker follows it within
\* 20 characters; letter case ignored), which then goes last.
ClaimedJoin(s) ==
    LET a == FragmentMatches(s)[1]
        b == FragmentMatches(s)[2]
    IN  IF IsEnding(s, a) /\ ~IsEnding(s, b) THEN b.frag \o a.frag ELSE a.frag \o b.frag

HasSplit(rs, addr) == \E k \in DOMAIN rs : rs[k].kind = "split" /\ rs[k].addr = addr

\* C2 as stated: every text of two fragments (identical ones included) yields
\* a split result whose address is the claimed concatenation.
C2_AnyTwoFragments ==
    (pc = "done" /\ TwoFragmentCase(text)) => HasSplit(out, ClaimedJoin(text))

DistinctFragments(s) == FragmentMatches(s)[1].frag # FragmentMatches(s)[2].frag

\* C2 amended: every text of two fragments with different text yields a split
\* result whose address is the claimed concatenation.
C2_TwoDistinctFragments ==
    (pc = "done" /\ TwoFragmentCase(text) /\ DistinctFragments(text)) =>
        HasSplit(out, ClaimedJoin(text))

\* Two different fragments, the first one ending-marked and therefore last in
\* the address that was returned.
C2_Witness ==
    /\ pc = "done"
    /\ TwoFragmentCase(text)
    /\ DistinctFragments(text)
    /\ IsEnding(text, FragmentMatches(text)[1])
    /\ ~IsEnding(text, FragmentMatches(text)[2])
    /\ HasSplit(out, FragmentMatches(text)[2].frag \o FragmentMatches(text)[1].frag)

\* The separators the claim names: hyphen, underscore, period, space.
ClaimSeps == {"-", "_", ".", " "}

LenA(s) == RunLen(s, 1, Base58)

LenSep(s) == RunLen(s, LenA(s) + 1, ClaimSeps)

LenB(s) == RunLen(s, LenA(s) + LenSep(s) + 1, Base58)

\* The text is A + sep + B as the claim describes it.
IsASepB(s) ==
    /\ LenA(s) >= MinFragLen
    /\ LenSep(s) \in 1..2
    /\ LenB(s) >= MinFragLen
    /\ LenA(s) + LenSep(s) + LenB(s) = Len(s)
    /\ IsAddrLen(LenA(s) + LenB(s))

JoinAB(s) == SubSeq(s, 1, LenA(s)) \o SubSeq(s, LenA(s) + LenSep(s) + 1, Len(s))

\* C4: a text A + sep + B (A, B of 8 or more Base58 characters, one or two
\* separators, A+B 32 to 44 long) yields an obfuscated result whose address
\* is A+B.
C4_ObfuscatedJoin ==
    (pc = "done" /\ IsASepB(text)) =>
        \E k \in DOMAIN out : out[k].kind = "obfuscated" /\ out[k].addr = JoinAB(text)

\* A + sep + B where A alone is an address: A is reported as standard and A+B
\* as obfuscated.
C4_Witness ==
    /\ pc = "done"
    /\ IsASepB(text)
    /\ LenSep(text) = 2
    /\ Len(out) = 2
    /\ out[1].kind = "standard"
    /\ out[1].addr = SubSeq(text, 1, LenA(text))
    /\ out[2].kind = "obfuscated"
    /\ out[2].addr = JoinAB(text)

\* The split reconstructor's results, tagged as extract tags them.
SplitTagged(s) ==
    LET sm == FindSplitContracts(s)
    IN  [k \in 1..Len(sm) |->
            [addr |-> sm[k].combined, orig |-> sm[k].info, kind |-> "split"]]

\* C5: a split result appears only when no standard or obfuscated result
\* does, and when standard and obfuscated matching find nothing the output is
\* exactly the split reconstructor's results, in its order.
C5_SplitOnlyAsFallback ==
    pc = "done" =>
        /\ "split" \in Kinds(out) => Kinds(out) = {"split"}
        /\ EasyResults(text) # <<>> => "split" \notin Kinds(out)
        /\ EasyResults(text) = <<>> => out = SplitTagged(text)

\* A standard address was found, so the reconstructor was not run although it
\* would have produced an address.
C5_Witness ==
    /\ pc = "done"
    /\ FindSplitContracts(text) # <<>>
    /\ Kinds(out) = {"standard"}

\* C6: every address returned consists of Base58 characters only, is 32 to 44
\* characters long and holds no separator.
C6_CanonicalShape ==
    pc = "done" =>
        \A k \in DOMAIN out :
            /\ IsAddrLen(Len(out[k].addr))
            /\ \A i \in DOMAIN out[k].addr :
                   out[k].addr[i] \in Base58 /\ out[k].addr[i] \notin Specials

\* An obfuscated result whose matched text held separators and whose address
\* holds none.
C6_Witness ==
    /\ pc = "done"
    /\ \E k \in DOMAIN out :
           /\ out[k].kind = "obfuscated"
           /\ \E i \in DOMAIN out[k].orig : out[k].orig[i] \in Specials
           /\ Len(out[k].addr) < Len(out[k].orig)

\* Index in `results` of the first result with the given address.
FirstFound(rs, addr) ==
    CHOOSE m \in DOMAIN rs :
        rs[m].addr = addr /\ \A q \in 1..(m - 1) : rs[q].addr # addr

\* C7: no two results returned share an address; the result kept for an
\* address is the first one found, and results stay in first-seen order.
C7_UniqueFirstSeen ==
    pc = "done" =>
        /\ \A i, j \in DOMAIN out : i # j => out[i].addr # out[j].addr
        /\ Addrs(out) = Addrs(results)
        /\ \A k \in DOMAIN out : out[k] = results[FirstFound(results, out[k].addr)]
        /\ \A i, j \in DOMAIN out :
               i < j => FirstFound(results, out[i].addr) < FirstFound(results, out[j].addr)

\* The same address was found twice and is returned once.
C7_Witness ==
    /\ pc = "done"
    /\ Len(results) = 2
    /\ results[1].addr = results[2].addr
    /\ Len(out) = 1

(***************************************************************************)
(* Vocabulary of the claims about find_split_contracts.  unique_fragments  *)
(* is in ascending text position, so a smaller index is an earlier         *)
(* fragment.                                                               *)
(***************************************************************************)

Combineds(rs) == {rs[k].combined : k \in DOMAIN rs}

Infos(rs) == {rs[k].info : k \in DOMAIN rs}

\* The claimed order of a pair i < j of fragments: the ending one last when
\* exactly one is ending, text order otherwise.
ClaimedPair(uf, e, i, j) ==
    IF uf[i].frag \in e /\ uf[j].frag \notin e THEN <<uf[j].frag, uf[i].frag>>
    ELSE <<uf[i].frag, uf[j].frag>>

\* The claimed order of a triple i < j < k: the fragments that are not
\* ending in text order, then the ending ones in text order.
ClaimedTriple(uf, e, i, j, k) ==
    LET t == <<uf[i].frag, uf[j].frag, uf[k].frag>>
    IN  SelectSeq(t, LAMBDA f : f \notin e) \o SelectSeq(t, LAMBDA f : f \in e)

PairsOf(uf) == {p \in (DOMAIN uf) \X (DOMAIN uf) : p[1] < p[2]}

TriplesOf(uf) ==
    {t \in (DOMAIN uf) \X (DOMAIN uf) \X (DOMAIN uf) : t[1] < t[2] /\ t[2] < t[3]}

ClaimedPairAddrs(uf, e) ==
    {c \in {ClaimedPair(uf, e, p[1], p[2])[1] \o ClaimedPair(uf, e, p[1], p[2])[2] :
               p \in PairsOf(uf)} : FullShape(c)}

ClaimedPairInfos(uf, e) ==
    {ClaimedPair(uf, e, p[1], p[2])[1] \o InfoSep \o ClaimedPair(uf, e, p[1], p[2])[2] :
        p \in PairsOf(uf)}

ClaimedTripleInfos(uf, e) ==
    {ClaimedTriple(uf, e, t[1], t[2], t[3])[1] \o InfoSep
        \o ClaimedTriple(uf, e, t[1], t[2], t[3])[2] \o InfoSep
        \o ClaimedTriple(uf, e, t[1], t[2], t[3])[3] : t \in TriplesOf(uf)}

\* C8: every result of the 3-fragment loops joins its fragments in the
\* claimed order: fragments that are not ending first, in text order, then the
\* ending fragments in text order; two ending fragments never appear in the
\* reverse of their text order.
C8_TripleEndingOrder ==
    pc = "return" =>
        \A k \in DOMAIN results :
            results[k].info \in
                ClaimedPairInfos(fragments, ending) \cup ClaimedTripleInfos(fragments, ending)

\* C9: the addresses of the 2-fragment loops are exactly the claimed
\* concatenations of the pairs i < j that have the address shape (the ending
\* fragment last when exactly one is ending, text order otherwise), one per
\* pair at most, each described by its fragments in that order.
C9_PairOrder ==
    pc = "three" =>
        /\ Combineds(results) = ClaimedPairAddrs(fragments, ending)
        /\ Infos(results) \subseteq ClaimedPairInfos(fragments, ending)
        /\ Len(results) <= Cardinality(PairsOf(fragments))
        /\ \A a, b \in DOMAIN results : a # b => results[a].combined # results[b].combined

\* An ending fragment that comes first in the text was placed last, and the
\* text-order concatenation of that pair was not emitted.
C9_Witness ==
    /\ pc = "three"
    /\ \E p \in PairsOf(fragments) :
           /\ fragments[p[1]].frag \in ending
           /\ fragments[p[2]].frag \notin ending
           /\ fragments[p[2]].frag \o fragments[p[1]].frag \in Combineds(results)
           /\ fragments[p[1]].frag \o fragments[p[2]].frag \notin Combineds(results)

(***************************************************************************)
(* The host: main() seeds `seen` and registers the NewMessage handler; the *)
(* handler invocations run as tasks of one event loop, which switches      *)
(* between them only where a task awaits (event.get_sender, send_message). *)
(***************************************************************************)

MaxEvents == 2

\* FORWARD_TO is a configuration list ("Chat IDs to forward into"); the model
\* takes NumTargets destinations.
NumTargets == 2

FORWARD_TO == [i \in 1..NumTargets |-> i]

USER_FILTER == {448480473}

Senders == {448480473, 1000}

\* \S+ at index p: number of consecutive characters that are not whitespace.
RECURSIVE NonSpaceLen(_, _)
NonSpaceLen(s, p) ==
    IF p <= Len(s) /\ s[p] \notin WhiteSpace THEN 1 + NonSpaceLen(s, p + 1) ELSE 0

\* https?://\S+ at index p: length of the match, 0 when there is none.
UrlMatchLen(s, p) ==
    LET schemes == {<<"h", "t", "t", "p", "s", ":", "/", "/">>,
                    <<"h", "t", "t", "p", ":", "/", "/">>}
        cands == {h \in schemes :
                     /\ SubSeq(s, p, Min2(p + Len(h) - 1, Len(s))) = h
                     /\ NonSpaceLen(s, p + Len(h)) >= 1}
    IN  IF cands = {} THEN 0
        ELSE LET h == CHOOSE h \in cands : TRUE
             IN  Len(h) + NonSpaceLen(s, p + Len(h))

\* re.sub(r'https?://\S+', '', text) from index p on.
RECURSIVE StripUrlsFrom(_, _)
StripUrlsFrom(s, p) ==
    IF p > Len(s) THEN <<>>
    ELSE LET n == UrlMatchLen(s, p)
         IN  IF n > 0 THEN StripUrlsFrom(s, p + n)
             ELSE <<s[p]>> \o StripUrlsFrom(s, p + 1)

StripUrls(s) == StripUrlsFrom(s, 1)

AddrX == Rep("a", 32)

AddrY == Rep("b", 32)

\* Message texts: one address; two addresses; an address inside a link.
HostTexts ==
    {AddrX,
     AddrX \o <<" ">> \o AddrY,
     <<"h", "t", "t", "p", "s", ":", "/", "/">> \o AddrY \o <<" ">> \o AddrY}

\* The line the handler writes for one result (address first).
LogLine(r) == [addr |-> r.addr, kind |-> r.kind, orig |-> r.orig]

LineAddrs(lines) == {lines[k].addr : k \in DOMAIN lines}

\* NextNew without the `if cleaned_contract in seen: continue` test.
NextNew_NoSeenCheck(cr, from, seenSet) == IF from <= Len(cr) THEN from ELSE Len(cr) + 1

\* The loop over contract_results from index `from` on: index of the first
\* result whose address is not in `seen` (the others are skipped by
\* `continue`), Len + 1 when there is none.
NextNew(cr, from, seenSet) ==
    LET new == {k \in from..Len(cr) : cr[k].addr \notin seenSet}
    IN  IF new = {} THEN Len(cr) + 1 ELSE CHOOSE k \in new : \A q \in new : k <= q

InitHost ==
    /\ text = <<>>
    /\ pc = "load"
    /\ results = <<>>
    /\ out = <<>>
    /\ fragments = <<>>
    /\ ending = {}
    /\ seen = {}
    /\ logfile = <<>>
    /\ sent = <<>>
    /\ attempts = <<>>
    /\ failures = <<>>
    /\ stored \in {<<>>, <<[addr |-> AddrY, kind |-> "standard", orig |-> AddrY]>>}
    /\ history \in {<<>>, <<AddrX>>}
    /\ cursor = 0
    /\ arrived = 0
    /\ tasks = <<>>

\* Lines 194-201: the blacklist is the first word of every stored line.
LoadBlacklist ==
    /\ pc = "load"
    /\ seen' = LineAddrs(stored)
    /\ pc' = "seed"
    /\ UNCHANGED <<text, results, out, fragments, ending, logfile, sent, attempts,
                   failures, stored, history, cursor, arrived, tasks>>

\* Lines 204-212: one message of the lookback.
SeedMessage ==
    /\ pc = "seed"
    /\ cursor < Len(history)
    /\ seen' = seen \cup Addrs(ExtractContracts(StripUrls(history[cursor + 1])))
    /\ cursor' = cursor + 1
    /\ UNCHANGED <<text, pc, results, out, fragments, ending, logfile, sent, attempts,
                   failures, stored, history, arrived, tasks>>

\* Lines 215-216, 262: the handler is registered once seeding is over.
Register ==
    /\ pc = "seed"
    /\ cursor = Len(history)
    /\ pc' = "run"
    /\ UNCHANGED <<text, results, out, fragments, ending, seen, logfile, sent,
                   attempts, failures, stored, history, cursor, arrived, tasks>>

\* A NewMessage event starts a handler invocation, which awaits get_sender.
NewMessage ==
    /\ pc = "run"
    /\ arrived < MaxEvents
    /\ \E txt \in HostTexts, sender \in Senders :
           tasks' = Append(tasks, [tpc |-> "get_sender", text |-> txt, sender |-> sender,
                                   cr |-> <<>>, idx |-> 0, tgt |-> 0])
    /\ arrived' = arrived + 1
    /\ UNCHANGED <<text, pc, results, out, fragments, ending, seen, logfile, sent,
                   attempts, failures, stored, history, cursor>>

\* Lines 233-255 from result `from` of task t on, up to the next await: skip
\* the results already seen; for the first new one add it to `seen`, write
\* its line and call send_message for the first destination.  `att` is the
\* list of send_message calls so far.
ProcessFrom(t, cr, from, att) ==
    LET k == NextNew(cr, from, seen)
    IN  IF k > Len(cr)
        THEN /\ tasks' = [tasks EXCEPT ![t] = [@ EXCEPT !.tpc = "done", !.cr = cr,
                                                        !.idx = k, !.tgt = 0]]
             /\ attempts' = att
             /\ UNCHANGED <<seen, logfile>>
        ELSE /\ seen' = seen \cup {cr[k].addr}
             /\ logfile' = Append(logfile, LogLine(cr[k]))
             /\ attempts' = Append(att, <<FORWARD_TO[1], cr[k].addr>>)
             /\ tasks' = [tasks EXCEPT ![t] = [@ EXCEPT !.tpc = "send", !.cr = cr,
                                                        !.idx = k, !.tgt = 1]]

\* Lines 217-231: get_sender returns; the sender filter, then the extraction.
GotSender(t) ==
    /\ tasks[t].tpc = "get_sender"
    /\ IF tasks[t].sender \notin USER_FILTER
       THEN /\ tasks' = [tasks EXCEPT ![t].tpc = "done"]
            /\ UNCHANGED <<seen, logfile, attempts>>
       ELSE ProcessFrom(t, ExtractContracts(StripUrls(tasks[t].text)), 1, attempts)
    /\ UNCHANGED <<text, pc, results, out, fragments, ending, sent, failures, stored,
                   history, cursor, arrived>>

\* Lines 254-256: send_message returns; the next destination, or the next result.
SendReturns(t) ==
    /\ tasks[t].tpc = "send"
    /\ sent' = Append(sent, <<FORWARD_TO[tasks[t].tgt], tasks[t].cr[tasks[t].idx].addr>>)
    /\ IF tasks[t].tgt < Len(FORWARD_TO)
       THEN /\ attempts' = Append(attempts, <<FORWARD_TO[tasks[t].tgt + 1],
                                              tasks[t].cr[tasks[t].idx].addr>>)
            /\ tasks' = [tasks EXCEPT ![t].tgt = @ + 1]
            /\ UNCHANGED <<seen, logfile>>
       ELSE ProcessFrom(t, tasks[t].cr, tasks[t].idx + 1, attempts)
    /\ UNCHANGED <<text, pc, results, out, fragments, ending, failures, stored,
                   history, cursor, arrived>>

\* Lines 253, 257-258: send_message raises; the except clause ends the loop
\* over the destinations, prints the failure, and the next result follows.
SendRaises(t) ==
    /\ tasks[t].tpc = "send"
    /\ failures' = Append(failures, tasks[t].cr[tasks[t].idx].addr)
    /\ ProcessFrom(t, tasks[t].cr, tasks[t].idx + 1, attempts)
    /\ UNCHANGED <<text, pc, results, out, fragments, ending, sent, stored, history,
                   cursor, arrived>>

NextHost ==
    \/ LoadBlacklist
    \/ SeedMessage
    \/ Register
    \/ NewMessage
    \/ \E t \in DOMAIN tasks : GotSender(t)
    \/ \E t \in DOMAIN tasks : SendReturns(t)
    \/ \E t \in DOMAIN tasks : SendRaises(t)

SpecHost == InitHost /\ [][NextHost]_vars

(***************************************************************************)
(* Claims about the host                                                   *)
(***************************************************************************)

\* The addresses in `seen` once seeding is over: the stored lines' and the
\* lookback messages'.
Seeded ==
    LineAddrs(stored)
        \cup UNION {Addrs(ExtractContracts(StripUrls(history[k]))) : k \in DOMAIN history}

CallAddrs(calls) == {calls[k][2] : k \in DOMAIN calls}

NoRepeat(q) == \A i, j \in DOMAIN q : i # j => q[i] # q[j]

\* The address task t is forwarding while it awaits send_message.
Forwarding(t) == tasks[t].cr[tasks[t].idx].addr

\* C3: once the forwarding of a logged address is over, delivery has been
\* attempted to every destination of FORWARD_TO, also when the delivery to
\* one of them failed.
C3_EveryDestinationAttempted ==
    \A k \in DOMAIN logfile :
        (~\E t \in DOMAIN tasks : tasks[t].tpc = "send" /\ Forwarding(t) = logfile[k].addr)
            => \A i \in DOMAIN FORWARD_TO :
                   <<FORWARD_TO[i], logfile[k].addr>> \in Range(attempts)

C10_LoggedAndForwardedOnce ==
    /\ \A i, j \in DOMAIN logfile : i # j => logfile[i].addr # logfile[j].addr
    /\ NoRepeat(attempts)
    /\ NoRepeat(sent)
    /\ Seeded \cap (LineAddrs(logfile) \cup CallAddrs(attempts) \cup CallAddrs(sent)) = {}

\* C10: under every interleaving of the handler invocations an address is
\* written to the log once at most and sent to a destination once at most, an
\* address seeded at startup is never logged or forwarded, and the seen set
\* only grows.
C10_AtMostOncePerLifetime ==
    [](C10_LoggedAndForwardedOnce) /\ [][seen \subseteq seen']_vars

\* A later invocation found the address an earlier one is still forwarding,
\* skipped it and finished, while the earlier one is suspended in send_message.
C10_Witness ==
    \E t1, t2 \in DOMAIN tasks :
        /\ t1 < t2
        /\ tasks[t1].tpc = "send"
        /\ tasks[t2].tpc = "done"
        /\ Forwarding(t1) \in Addrs(tasks[t2].cr)
        /\ Cardinality({k \in DOMAIN logfile : logfile[k].addr = Forwarding(t1)}) = 1

====
